---- MODULE Spec2Model ----
(***************************************************************************)
(* Model of softlayer_saltmaster_bootstrap/__main__.py: the bounded retry  *)
(* loop until_with_lim_test, the instance lookup _locate_instance, the key *)
(* lookup _locate_or_add_pubkey and the provision-then-configure flow of   *)
(* main, run against a SoftLayer account and an SSH endpoint that answer   *)
(* nondeterministically.                                                   *)
(***************************************************************************)
EXTENDS Integers, Sequences, FiniteSets, TLC

(* ------------------------------ bounds --------------------------------- *)

\* longest time limit, in minutes, given to the retry loop run on its own
MaxLim == 2
\* duration, in seconds, of a slow call of fn
MaxFnSecs == 150
\* duration, in seconds, of a quick call of fn within a run of main
MinFnSecs == 60
\* most virtual guests the account lists
MaxGuests == 2

(* ------------------------- program constants --------------------------- *)

SecsPerMin == 60
SleepSecs == 3
SleepAfterRetries == 2
LocateLimMin == 5
SshLimMin == 5
CreatedExitCode == 15

None == "None"
\* a name bound to None where the program binds it to a tuple or a list
NoInstance == <<>>
Name == "salt"
Domain == "example.com"
KeyLabel == "user@host"


(* ------------------------------ state ---------------------------------- *)

VARIABLES
  \* the command line (argparse namespace)
  args,
  \* the SoftLayer account: listed virtual guests, a created guest not yet
  \* listed, registered keys
  guests, pending, sl_keys,
  \* main: position, locals, process exit status and standard output
  pc, vs, ssh_key, exit_code, status, exited, stdout,
  \* _locate_instance: what it raised; the matches the first lookup of the
  \* run found; what key resolution raised; id of the guest createObject made
  l_err, first_matching, key_err, created,
  \* how many times _locate_or_add_pubkey was called
  key_lookups,
  \* what the try block's except clause caught: the step it was raised in
  failed_step,
  \* calls made to the provider, and what was done over SSH, in order
  calls, ssh_log,
  \* until_with_lim_test: parameters and locals
  test_fn, lim_min, fn, retries, elapsed, test, limit_reached, res,
  e_pc, outcome,
  \* bookkeeping on the running loop: sleeps taken, first satisfying attempt
  sleeps, first_sat, sat_res

env_vars == <<guests, pending, sl_keys>>
main_vars == <<pc, vs, ssh_key, exit_code, status, exited, stdout, l_err,
               first_matching, key_err, key_lookups, failed_step, calls, ssh_log, created>>
eng_vars == <<test_fn, lim_min, fn, retries, elapsed, test, limit_reached,
              res, e_pc, outcome, sleeps, first_sat, sat_res>>
vars == <<args, guests, pending, sl_keys, pc, vs, ssh_key, exit_code, status,
          exited, stdout, l_err, first_matching, key_err, key_lookups, created, failed_step,
          calls, ssh_log, test_fn, lim_min, fn, retries, elapsed, test,
          limit_reached, res, e_pc, outcome, sleeps, first_sat, sat_res>>

(* --------------------------- the account ------------------------------- *)

Pw(user) == [username |-> user, password |-> "p@ss"]

\* operatingSystem.passwords of a guest: not yet populated, populated
\* without a root entry, one root entry, two root entries
PwLists == {<<>>, <<Pw("admin")>>, <<Pw("admin"), Pw("root")>>,
            <<Pw("root"), Pw("root")>>}

Guest(i, h, d, p) == [id |-> i, hostname |-> h, domain |-> d, passwords |-> p]

\* a guest of the account with another name: the hostname differs in case
\* only, or the domain differs
Strangers(i) == IF i % 2 = 1
                  THEN {Guest(i, "Salt", Domain, <<Pw("root")>>)}
                  ELSE {Guest(i, Name, "example.org", <<Pw("root")>>)}

Namesakes(i) == {Guest(i, Name, Domain, p) : p \in PwLists}

\* a guest of the same name that another order creates meanwhile
Newcomers(i) == {Guest(i, Name, Domain, p) :
                   p \in {<<>>, <<Pw("admin"), Pw("root")>>}}

RECURSIVE GuestLists(_)
GuestLists(n) ==
  IF n = 0 THEN {<<>>}
  ELSE LET shorter == GuestLists(n - 1)
       IN shorter \cup
          {Append(l, g) : l \in {s \in shorter : Len(s) = n - 1},
                          g \in Namesakes(n) \cup Strangers(n)}

Key(i, l) == [id |-> i, label |-> l]
\* ssh_key before anything is bound to it
NoKey == Key(0, None)

Fqdn(g) == <<g.hostname, g.domain>>
Ip(g) == <<"10.0.0", g.id>>

(* --------------------- _locate_instance helpers ------------------------ *)

\* vs_lookup: the listed guests whose hostname and domain equal the pair
vs_lookup == SelectSeq(guests, LAMBDA i : i.hostname = Name /\ i.domain = Domain)

RootEntries(my_vs) ==
  SelectSeq(my_vs.passwords, LAMBDA i : i.username = "root")

\* root_pass on one guest record: more than one root entry raises
RootPassRaises(my_vs) == Len(RootEntries(my_vs)) > 1

RootPassValue(my_vs) ==
  IF my_vs.passwords # <<>> /\ Len(RootEntries(my_vs)) = 1
    THEN RootEntries(my_vs)[1].password
    ELSE None

\* root_pass on a lookup result: a non-empty list stands for its first guest
root_pass_raises(l) == l # <<>> /\ RootPassRaises(l[1])
root_pass(l) == IF l = <<>> THEN None ELSE RootPassValue(l[1])

Descriptor(provisioned) ==
  <<Fqdn(provisioned), Ip(provisioned), RootPassValue(provisioned),
    provisioned.id>>

(* ------------------------ until_with_lim_test -------------------------- *)

EngineIdle ==
  /\ test_fn = None /\ lim_min = 0 /\ fn = None /\ retries = 0
  /\ elapsed = 0 /\ test = FALSE /\ limit_reached = FALSE /\ res = <<>>
  /\ e_pc = "idle" /\ outcome = None /\ sleeps = 0 /\ first_sat = 0
  /\ sat_res = <<>>

\* entry of until_with_lim_test(tf, lim, desc, f)
until_start(tf, lim, f) ==
  /\ test_fn' = tf /\ lim_min' = lim /\ fn' = f
  /\ retries' = 0 /\ elapsed' = 0 /\ test' = FALSE
  /\ limit_reached' = FALSE /\ res' = <<>> /\ e_pc' = "loop"
  /\ outcome' = None /\ sleeps' = 0 /\ first_sat' = 0 /\ sat_res' = <<>>

\* LimitReached with the division by 60 left out
LimitReached_in_seconds(secs, lim) == secs > lim

\* (datetime.now() - start).total_seconds() / 60 > lim_min
LimitReached(secs, lim) == secs > lim * SecsPerMin

\* what ssh_connect returns: res holds True as a one-element sequence and
\* False as the empty one, so that every value of res is a sequence
SshTrue == <<"connected">>
SshFalse == <<>>

\* truth value of fn's result: a non-empty list, or True
Truthy(f, r) == IF f = "ssh_connect" THEN r = SshTrue ELSE r # <<>>

TestRaises(tf, r) == tf = "root_pass" /\ root_pass_raises(r)
\* test_fn(res) as the loop reads it; "truthy" is the test bool(res)
TestValue(tf, r) ==
  IF tf = "root_pass" THEN root_pass(r) # None
  ELSE IF tf = "truthy" THEN Truthy(fn, r)
  ELSE FALSE

\* whether the result ends the retrying: the test passes or, without a
\* test, the result is true
Satisfying(tf, f, r) ==
  IF tf = None THEN Truthy(f, r) ELSE ~TestRaises(tf, r) /\ TestValue(tf, r)

\* SleepDue sleeping one attempt early
SleepDue_early(n) == n >= SleepAfterRetries

SleepDue(n) == n > SleepAfterRetries

\* without a test a true result leaves the loop by break
Breaks(tf, f, r) == tf = None /\ Truthy(f, r)

\* whether attempt n, fn having returned r, is followed by time.sleep
SleepsAfter(tf, f, r, n) ==
  ~TestRaises(tf, r) /\ ~Breaks(tf, f, r) /\ SleepDue(n)

\* the while condition with the time limit left out
LoopCondition_ignoring_limit == ~test

\* while not (test or limit_reached)
LoopCondition == ~(test \/ limit_reached)

\* one pass through the while loop, fn returning r after d seconds
until_iteration(r, d) ==
  /\ e_pc = "loop" /\ LoopCondition
  /\ limit_reached' = LimitReached(elapsed, lim_min)
  /\ retries' = retries + 1
  /\ res' = r
  /\ first_sat' = IF first_sat = 0 /\ Satisfying(test_fn, fn, r)
                    THEN retries + 1 ELSE first_sat
  /\ sat_res' = IF first_sat = 0 /\ Satisfying(test_fn, fn, r)
                  THEN r ELSE sat_res
  /\ IF test_fn # None /\ TestRaises(test_fn, r)
       THEN /\ e_pc' = "done" /\ outcome' = "TestFnException"
            /\ test' = test /\ elapsed' = elapsed + d /\ sleeps' = sleeps
       ELSE IF Breaks(test_fn, fn, r)
         THEN /\ test' = TRUE /\ e_pc' = "break"
              /\ elapsed' = elapsed + d /\ sleeps' = sleeps
              /\ outcome' = outcome
         ELSE /\ test' = IF test_fn # None THEN TestValue(test_fn, r) ELSE test
              /\ e_pc' = "loop" /\ outcome' = outcome
              /\ IF SleepsAfter(test_fn, fn, r, retries + 1)
                   THEN elapsed' = elapsed + d + SleepSecs /\ sleeps' = sleeps + 1
                   ELSE elapsed' = elapsed + d /\ sleeps' = sleeps
  /\ UNCHANGED <<test_fn, lim_min, fn>>

\* one pass through the while loop in which fn raises after d seconds
until_iteration_raises(d) ==
  /\ e_pc = "loop" /\ LoopCondition
  /\ limit_reached' = LimitReached(elapsed, lim_min)
  /\ elapsed' = elapsed + d
  /\ e_pc' = "done" /\ outcome' = "FnException"
  /\ UNCHANGED <<test_fn, lim_min, fn, retries, test, res, sleeps,
                 first_sat, sat_res>>

\* after the loop: raise or return
UntilFinish ==
  /\ \/ e_pc = "break"
     \/ e_pc = "loop" /\ (test \/ limit_reached)
  /\ e_pc' = "done"
  /\ outcome' = IF limit_reached THEN "TimeLimitedOperationException"
                ELSE IF ~test THEN "Exception"
                ELSE "return"
  /\ UNCHANGED <<test_fn, lim_min, fn, retries, elapsed, test,
                 limit_reached, res, sleeps, first_sat, sat_res>>
  /\ UNCHANGED <<args, env_vars, main_vars>>

\* how long a call of fn may take: the loop run on its own is also given
\* calls that take no time
FnDurs == IF pc = "retry" THEN {0, MaxFnSecs} ELSE {MinFnSecs, MaxFnSecs}

\* fn = vs_lookup: one attempt queries the account
VsLookupAttempt ==
  /\ fn = "vs_lookup"
  /\ \E d \in FnDurs : until_iteration(vs_lookup, d)
  /\ UNCHANGED <<args, env_vars, main_vars>>

\* ssh_connect: connect failed (or the instance is None): with --debug the
\* except clause's print names ssh_lim_min, which is not defined
ssh_connect_raises(debug, connected) == ~connected /\ debug

SshConnectAttempt ==
  /\ fn = "ssh_connect"
  /\ \E d \in FnDurs, connected \in BOOLEAN :
       /\ connected => vs # NoInstance
       /\ IF ssh_connect_raises(args.debug, connected)
            THEN until_iteration_raises(d)
            ELSE until_iteration(IF connected THEN SshTrue ELSE SshFalse, d)
  /\ UNCHANGED <<args, env_vars, main_vars>>

(* ----------------------- the account, changing ------------------------- *)

Polling == e_pc = "loop" /\ fn = "vs_lookup" /\ ~(test \/ limit_reached)

\* the OS metadata of a matching guest is populated
ProviderPopulate ==
  /\ Polling
  /\ \E k \in 1..Len(guests), p \in PwLists \ {<<>>} :
       /\ guests[k].hostname = Name /\ guests[k].domain = Domain
       /\ guests[k].passwords = <<>>
       /\ guests' = [guests EXCEPT ![k].passwords = p]
  /\ UNCHANGED <<args, pending, sl_keys, main_vars, eng_vars>>

\* a second guest of the same name is listed, ahead of or behind the others
ProviderDuplicate ==
  /\ Polling
  /\ Len(vs_lookup) = 1
  /\ \E g \in Newcomers(Len(guests) + 1) :
       guests' \in {Append(guests, g), <<g>> \o guests}
  /\ UNCHANGED <<args, pending, sl_keys, main_vars, eng_vars>>

(* ------------------- the retry loop run on its own --------------------- *)

Args == [debug : BOOLEAN, seed_dir : BOOLEAN, add_sl_cli : BOOLEAN,
         show_root_pass : BOOLEAN, ssh_pub_key : {None, "path", "label"}]

MainIdle ==
  /\ ssh_key = NoKey /\ exit_code = 0 /\ status = 0 /\ exited = FALSE
  /\ stdout = <<>> /\ l_err = None /\ first_matching = <<>> /\ key_err = None
  /\ created = 0 /\ key_lookups = 0
  /\ failed_step = None /\ calls = <<>> /\ ssh_log = <<>>

Uses == {<<"root_pass", "vs_lookup">>, <<None, "vs_lookup">>,
         <<None, "ssh_connect">>, <<"truthy", "vs_lookup">>,
         <<"truthy", "ssh_connect">>}

InitRetry ==
  /\ args \in {a \in Args : ~a.seed_dir /\ ~a.add_sl_cli /\ ~a.show_root_pass
                            /\ a.ssh_pub_key = None}
  /\ guests \in GuestLists(MaxGuests)
  /\ sl_keys = <<>> /\ pending = NoInstance
  /\ pc = "retry" /\ MainIdle
  /\ vs \in {NoInstance} \cup {Descriptor(g) : g \in Namesakes(1)}
  /\ \E u \in Uses, lim \in 1..MaxLim :
       /\ test_fn = u[1] /\ fn = u[2] /\ lim_min = lim
       /\ (u[2] = "ssh_connect" => guests = <<>>)
       /\ (u[2] = "vs_lookup" => vs = NoInstance)
  /\ retries = 0 /\ elapsed = 0 /\ test = FALSE /\ limit_reached = FALSE
  /\ res = <<>> /\ e_pc = "loop" /\ outcome = None /\ sleeps = 0
  /\ first_sat = 0 /\ sat_res = <<>>

NextRetry ==
  \/ VsLookupAttempt
  \/ SshConnectAttempt
  \/ UntilFinish
  \/ ProviderPopulate
  \/ ProviderDuplicate

SpecRetry == InitRetry /\ [][NextRetry]_vars

(* ------------------------ _locate_or_add_pubkey ------------------------ *)

KeysLabelled(key_label) ==
  SelectSeq(sl_keys, LAMBDA key : key.label = key_label)

\* key_by_label: element 0 of the keys with the label; IndexError if none
key_by_label(key_label) ==
  IF KeysLabelled(key_label) = <<>>
    THEN [raised |-> TRUE, key |-> NoKey]
    ELSE [raised |-> FALSE, key |-> KeysLabelled(key_label)[1]]

\* the key that add_key registers
NewKey(key_label) == Key(Len(sl_keys) + 1, key_label)

\* locate_or_add_pubkey registering the file's key without looking at the
\* key the label already names
locate_or_add_pubkey_unchecked(path_or_label) ==
  LET found == key_by_label(KeyLabel)
  IN IF path_or_label = "path"
       THEN [err |-> None, add |-> TRUE, key |-> NewKey(KeyLabel)]
       ELSE IF found.raised
              THEN [err |-> "IndexError", add |-> FALSE, key |-> NoKey]
            ELSE [err |-> None, add |-> FALSE, key |-> found.key]

\* locate_or_add_pubkey raising nothing: it returns whatever key the label
\* names, and no key where it names none
locate_or_add_pubkey_silent(path_or_label) ==
  [err |-> None, add |-> FALSE, key |-> key_by_label(KeyLabel).key]

\* _locate_or_add_pubkey(path_or_label): what it raises, whether it calls
\* add_key, and the key it returns. "path" is a file that exists and whose
\* last field is KeyLabel; "label" is no file, and names KeyLabel
locate_or_add_pubkey(path_or_label) ==
  LET found == key_by_label(KeyLabel)
  IN IF path_or_label = "path"
       THEN IF found.raised
              THEN [err |-> "IndexError", add |-> FALSE, key |-> NoKey]
            ELSE IF found.key # NoKey
              THEN [err |-> "DuplicateKeyLabel", add |-> FALSE, key |-> NoKey]
            ELSE [err |-> None, add |-> TRUE, key |-> NewKey(KeyLabel)]
       ELSE IF found.raised
              THEN [err |-> "IndexError", add |-> FALSE, key |-> NoKey]
            ELSE IF found.key # NoKey
              THEN [err |-> None, add |-> FALSE, key |-> found.key]
            ELSE [err |-> "KeyNotFound", add |-> FALSE, key |-> NoKey]

(* ------------------------------- main ---------------------------------- *)

Call(c, i) == [call |-> c, id |-> i]

until_reset ==
  /\ test_fn' = None /\ lim_min' = 0 /\ fn' = None /\ retries' = 0
  /\ elapsed' = 0 /\ test' = FALSE /\ limit_reached' = FALSE /\ res' = <<>>
  /\ e_pc' = "idle" /\ outcome' = None /\ sleeps' = 0 /\ first_sat' = 0
  /\ sat_res' = <<>>

\* an exception nothing catches: traceback, exit status 1
Unhandled ==
  /\ pc' = "exit" /\ exited' = TRUE /\ status' = 1

\* the step of the try block that follows the post-create lookup
AfterLocate == IF args.seed_dir THEN "seed" ELSE "install"

\* my_locate() returned v: the first call binds vs and tests it; the call
\* after createObject binds vs
LocateReturns(v) ==
  IF pc = "locate0"
    THEN /\ vs' = v
         /\ pc' = IF v # NoInstance THEN "report" ELSE "key"
         /\ UNCHANGED <<exited, status, failed_step, l_err>>
    ELSE /\ vs' = v
         /\ pc' = AfterLocate
         /\ UNCHANGED <<exited, status, failed_step, l_err>>

\* my_locate() raised: the first call is outside any try; the call after
\* createObject is inside it
LocateRaises(err) ==
  /\ l_err' = err
  /\ IF pc = "locate0"
       THEN Unhandled /\ UNCHANGED <<vs, failed_step>>
       ELSE /\ pc' = "except" /\ failed_step' = "locate"
            /\ UNCHANGED <<vs, exited, status>>

\* FirstLookup taking the first of several matches
FirstLookup_takes_first(matching) ==
  IF matching = <<>> THEN "absent" ELSE "poll"

\* what _locate_instance does with the first lookup's matches
FirstLookup(matching) ==
  IF matching = <<>> THEN "absent"
  ELSE IF Len(matching) = 1 THEN "poll"
  ELSE "ambiguous"

\* _locate_instance up to its call of until_with_lim_test
LocateLookup ==
  /\ pc \in {"locate0", "locate1"} /\ e_pc = "idle"
  /\ first_matching' = IF pc = "locate0" THEN vs_lookup ELSE first_matching
  /\ CASE FirstLookup(vs_lookup) = "absent" ->
            /\ LocateReturns(NoInstance)
            /\ UNCHANGED eng_vars
       [] FirstLookup(vs_lookup) = "poll" ->
            /\ until_start("root_pass", LocateLimMin, "vs_lookup")
            /\ UNCHANGED <<pc, vs, exited, status, failed_step, l_err>>
       [] OTHER ->
            /\ LocateRaises("AmbiguousInstance")
            /\ UNCHANGED eng_vars
  /\ UNCHANGED <<args, env_vars, ssh_key, exit_code, stdout, key_err, key_lookups, calls,
                 ssh_log, created>>

\* _locate_instance after until_with_lim_test returned or raised
LocateFinish ==
  /\ pc \in {"locate0", "locate1"} /\ e_pc = "done"
  /\ IF outcome = "return"
       THEN LocateReturns(Descriptor(res[1]))
       ELSE LocateRaises(outcome)
  /\ until_reset
  /\ UNCHANGED <<args, env_vars, ssh_key, exit_code, stdout, first_matching,
                 key_err, key_lookups, calls, ssh_log, created>>

\* main, the absent branch: resolve the key, set the exit code, build the
\* order
ResolveKey ==
  /\ pc = "key"
  /\ IF args.ssh_pub_key # None
       THEN LET r == locate_or_add_pubkey(args.ssh_pub_key)
            IN /\ key_err' = r.err /\ key_lookups' = key_lookups + 1
               /\ calls' = IF r.add THEN Append(calls, Call("add_key", r.key.id))
                           ELSE calls
               /\ sl_keys' = IF r.add THEN Append(sl_keys, r.key) ELSE sl_keys
               /\ IF r.err # None
                    THEN /\ pc' = "exit" /\ exited' = TRUE /\ status' = 1
                         /\ UNCHANGED <<ssh_key, exit_code>>
                    ELSE /\ ssh_key' = r.key /\ exit_code' = CreatedExitCode
                         /\ pc' = "create"
                         /\ UNCHANGED <<exited, status>>
       ELSE \* ssh_key is not bound when the order reads it
            /\ key_err' = "UnboundLocalError"
            /\ exit_code' = CreatedExitCode
            /\ Unhandled
            /\ UNCHANGED <<ssh_key, calls, sl_keys, key_lookups>>
  /\ UNCHANGED <<args, guests, pending, vs, stdout, l_err, first_matching,
                 failed_step, ssh_log, created, eng_vars>>

\* createObject blocks until the order is accepted, or raises
CreateObject ==
  /\ pc = "create"
  /\ calls' = Append(calls, Call("createObject", ssh_key.id))
  /\ \E accepted \in BOOLEAN :
       IF accepted
         THEN /\ pc' = "locate1"
              /\ pending' = <<Guest(Len(guests) + 1, Name, Domain, <<>>)>>
              /\ created' = Len(guests) + 1
              /\ UNCHANGED <<guests, failed_step>>
         ELSE /\ pc' = "except" /\ failed_step' = "create"
              /\ UNCHANGED <<guests, pending, created>>
  /\ UNCHANGED <<args, sl_keys, vs, ssh_key, exit_code, status, exited,
                 stdout, l_err, first_matching, key_err, key_lookups, ssh_log, eng_vars>>

\* the created guest shows up in the account's list
ProviderLists ==
  /\ pc = "locate1" /\ pending # NoInstance
  /\ e_pc = "idle"
  /\ guests' = Append(guests, pending[1])
  /\ pending' = NoInstance
  /\ UNCHANGED <<args, sl_keys, main_vars, created, eng_vars>>

SshSteps == {"seed", "install", "cli"}

\* _ssh_with_retry up to its call of until_with_lim
SshWithRetry ==
  /\ pc \in SshSteps /\ e_pc = "idle"
  /\ until_start(None, SshLimMin, "ssh_connect")
  /\ UNCHANGED <<args, env_vars, main_vars, created>>

\* what fn(ssh) can do: the operations it completes, and whether it raises
\* _upload_salt_seed: sftp.putfo, then exec_command
upload_salt_seed ==
  {[done |-> <<>>, raised |-> TRUE],
   [done |-> <<"sftp.putfo">>, raised |-> TRUE],
   [done |-> <<"sftp.putfo", "tar xvzf">>, raised |-> FALSE]}

\* the command at which exec_command raises, if at any
ExecFailures == {None, "yum install docker", "docker run saltmaster"}

\* _install_saltmaster_in_docker: both exec_command calls stand behind
\* "_debug and"
install_with(debug, failing) ==
  IF ~debug THEN [done |-> <<>>, raised |-> FALSE]
  ELSE IF failing = "yum install docker" THEN [done |-> <<>>, raised |-> TRUE]
  ELSE IF failing = "docker run saltmaster"
    THEN [done |-> <<"yum install docker">>, raised |-> TRUE]
  ELSE [done |-> <<"yum install docker", "docker run saltmaster">>,
        raised |-> FALSE]

install_saltmaster_in_docker ==
  {install_with(args.debug, failing) : failing \in ExecFailures}

\* _add_sl_cli: sftp.put, then the name debug, which is not defined
add_sl_cli ==
  {[done |-> <<>>, raised |-> TRUE],
   [done |-> <<"sftp.put">>, raised |-> TRUE]}

SshFn(step) ==
  CASE step = "seed" -> upload_salt_seed
    [] step = "install" -> install_saltmaster_in_docker
    [] OTHER -> add_sl_cli

\* the step of the try block after step
AfterStep(step) ==
  CASE step = "seed" -> "install"
    [] step = "install" -> IF args.add_sl_cli THEN "cli" ELSE "report"
    [] OTHER -> "report"

RECURSIVE Tagged(_, _)
Tagged(step, ops) ==
  IF ops = <<>> THEN <<>> ELSE <<<<step, Head(ops)>>>> \o Tagged(step, Tail(ops))

\* _ssh_with_retry after until_with_lim returned or raised: fn(ssh, ...)
SshRun ==
  /\ pc \in SshSteps /\ e_pc = "done"
  /\ IF outcome = "return"
       THEN \E r \in SshFn(pc) :
              /\ ssh_log' = ssh_log \o <<<<pc, "connect">>>> \o Tagged(pc, r.done)
              /\ IF r.raised
                   THEN pc' = "except" /\ failed_step' = pc
                   ELSE pc' = AfterStep(pc) /\ UNCHANGED failed_step
       ELSE /\ pc' = "except" /\ failed_step' = pc
            /\ UNCHANGED ssh_log
  /\ until_reset
  /\ UNCHANGED <<args, env_vars, vs, ssh_key, exit_code, status, exited,
                 stdout, l_err, first_matching, key_err, key_lookups, calls, created>>

\* _hose_instance(instance): cancel_instance(instance[-1])
hose_instance(instance) == Call("cancel_instance", instance[Len(instance)])

\* the except clause without its call of _hose_instance
Except_without_hose ==
  /\ pc = "except"
  /\ pc' = "report"
  /\ UNCHANGED <<args, env_vars, vs, ssh_key, exit_code, status, exited,
                 stdout, l_err, first_matching, key_err, key_lookups, failed_step, calls,
                 ssh_log, created, eng_vars>>

\* the except clause of main; cancel_instance itself may raise
Except ==
  /\ pc = "except"
  /\ IF vs # NoInstance
       THEN /\ calls' = Append(calls, hose_instance(vs))
            /\ \E cancelled \in BOOLEAN :
                 IF cancelled
                   THEN pc' = "report" /\ UNCHANGED <<exited, status>>
                   ELSE Unhandled
       ELSE /\ pc' = "report"
            /\ UNCHANGED <<calls, exited, status>>
  /\ UNCHANGED <<args, env_vars, vs, ssh_key, exit_code, stdout, l_err,
                 first_matching, key_err, key_lookups, failed_step, ssh_log, created,
                 eng_vars>>

\* _report_instance without the replacement of the password field
report_instance_unredacted(instance, show_root_pass) == instance

\* _report_instance(instance, show_root_pass)
report_instance(instance, show_root_pass) ==
  IF show_root_pass THEN instance
  ELSE [instance EXCEPT ![3] = "XXXXX"]

\* the end of main: print the report and exit; list(None) raises
Report ==
  /\ pc = "report"
  /\ IF vs # NoInstance
       THEN /\ stdout' = Append(stdout, report_instance(vs, args.show_root_pass))
            /\ pc' = "exit" /\ exited' = TRUE /\ status' = exit_code
       ELSE /\ Unhandled
            /\ UNCHANGED stdout
  /\ UNCHANGED <<args, env_vars, vs, ssh_key, exit_code, l_err,
                 first_matching, key_err, key_lookups, failed_step, calls, ssh_log, created,
                 eng_vars>>

KeyRings == {<<Key(1, "other@host")>>,
             <<Key(1, "other@host"), Key(2, KeyLabel)>>}

Init ==
  /\ args \in Args
  /\ guests \in GuestLists(MaxGuests)
  /\ pending = NoInstance
  /\ sl_keys \in KeyRings
  /\ pc = "locate0" /\ vs = NoInstance /\ MainIdle
  /\ EngineIdle

Next ==
  \/ LocateLookup
  \/ VsLookupAttempt
  \/ UntilFinish
  \/ LocateFinish
  \/ ProviderPopulate
  \/ ProviderDuplicate
  \/ ResolveKey
  \/ CreateObject
  \/ ProviderLists
  \/ SshWithRetry
  \/ SshConnectAttempt
  \/ SshRun
  \/ Except
  \/ Report

Spec == Init /\ [][Next]_vars

\* the steps of the program itself: main is one sequential process, which
\* takes its next step whenever it has one; the provider's changes to the
\* account are under no such obligation
Program ==
  \/ LocateLookup
  \/ VsLookupAttempt
  \/ UntilFinish
  \/ LocateFinish
  \/ ResolveKey
  \/ CreateObject
  \/ SshWithRetry
  \/ SshConnectAttempt
  \/ SshRun
  \/ Except
  \/ Report

\* every step of the program changes its position or the count of attempts
position == <<pc, e_pc, retries>>

\* main, and until_with_lim_test on its own, each with a program that keeps
\* running. The account starts with at most one guest (the provider may list
\* more while the program polls), and the password is not shown: neither
\* changes which steps can follow one another
InitFair ==
  \/ Init /\ ~args.show_root_pass /\ Len(guests) <= 1
  \/ InitRetry /\ Len(guests) <= 1

SpecFair == InitFair /\ [][Next]_vars /\ WF_position(Program)

(* ------------------------------ claims --------------------------------- *)

Range(f) == {f[i] : i \in DOMAIN f}

CallsOf(c) == SelectSeq(calls, LAMBDA x : x.call = c)

ExceededLimit == "TimeLimitedOperationException"

\* C1: when a configuring step (seed upload, install, CLI install or the
\* SSH wait of one of them) fails after the post-create lookup returned a
\* descriptor, the run exits having made exactly one cancel call, and that
\* call carries the descriptor's id.
C1_RollbackCancelsOnce ==
  (exited /\ created # 0 /\ failed_step \in SshSteps /\ vs # NoInstance)
    => CallsOf("cancel_instance") = <<Call("cancel_instance", vs[4])>>

C1_Witness ==
  /\ exited /\ created # 0 /\ failed_step = "install" /\ vs # NoInstance
  /\ Len(CallsOf("cancel_instance")) = 1

\* C2: a run that created a guest and failed in a later step exits only
\* after a cancel call for the guest it created.
C2_CreatedIsCancelledUnlessDone ==
  (exited /\ created # 0 /\ failed_step # None)
    => Call("cancel_instance", created) \in Range(calls)

\* C3: once an attempt's result is satisfying no further call of fn is
\* made and that result is returned; the time limit exception is raised
\* only when no attempt's result was satisfying.
C3_SatisfyingResultReturned ==
  /\ first_sat # 0 => retries = first_sat
  /\ (e_pc = "done" /\ first_sat # 0) => (outcome = "return" /\ res = sat_res)
  /\ (e_pc = "done" /\ outcome = ExceededLimit) => first_sat = 0

\* C4: when no attempt's result is satisfying and fn and the test always
\* return, the loop ends only by raising the time limit exception, and only
\* when at least lim_min minutes have elapsed since it started.
C4_NoEarlyTimeExceeded ==
  (e_pc = "done" /\ first_sat = 0
     /\ outcome \notin {"FnException", "TestFnException"})
    => (outcome = ExceededLimit /\ elapsed >= lim_min * SecsPerMin)

C4_Witness ==
  /\ e_pc = "done" /\ first_sat = 0 /\ outcome = ExceededLimit
  /\ lim_min > 1 /\ retries > 3

\* C5: a result first satisfying on the 3rd call, within the limit, ends the
\* loop after exactly 3 calls with that result returned; and before attempt
\* k+1 the loop has slept once for each earlier attempt numbered 3 or more,
\* so not at all before attempts 1, 2 and 3.
C5_ThreeCallsAndDelayRule ==
  /\ (e_pc = "done" /\ first_sat = 3 /\ ~limit_reached)
       => (retries = 3 /\ outcome = "return" /\ res = sat_res)
  /\ (e_pc = "loop" /\ ~(test \/ limit_reached))
       => sleeps = IF retries > 2 THEN retries - 2 ELSE 0

C5_Witness ==
  /\ e_pc = "done" /\ first_sat = 3 /\ ~limit_reached
  /\ retries = 3 /\ outcome = "return"

\* C6: when the first lookup of the run finds two or more guests with the
\* requested hostname and domain, _locate_instance raises the ambiguity
\* exception without starting the retry loop or building a descriptor, and
\* the run exits non-zero with no add_key, createObject or cancel call.
C6_AmbiguousInstanceAborts ==
  Len(first_matching) >= 2
    => /\ l_err = "AmbiguousInstance"
       /\ exited /\ status # 0
       /\ e_pc = "idle" /\ retries = 0
       /\ vs = NoInstance /\ stdout = <<>>
       /\ calls = <<>>

C6_Witness ==
  /\ Len(first_matching) >= 2 /\ exited /\ l_err = "AmbiguousInstance"

\* C7: when the first lookup finds exactly one matching guest and its
\* password list is not empty, _locate_instance finishes without the retry
\* loop ever sleeping or running into its time limit.
C7_LocatorFastPath ==
  (pc = "locate0" /\ Len(first_matching) = 1
     /\ first_matching[1].passwords # <<>>)
    => (sleeps = 0 /\ outcome # ExceededLimit)

KeyResolved == key_err # None \/ ssh_key # NoKey

\* a key labelled KeyLabel that this run did not register
PreExisting ==
  \E i \in 1..Len(sl_keys) :
    /\ sl_keys[i].label = KeyLabel
    /\ Call("add_key", sl_keys[i].id) \notin Range(calls)

\* C8: given a key file whose label no key of the account bears, key
\* resolution makes exactly one add_key call for that label and returns the
\* registered key without raising.
C8_FreshKeyRegistered ==
  (args.ssh_pub_key = "path" /\ ~PreExisting /\ KeyResolved)
    => /\ key_err = None
       /\ CallsOf("add_key") = <<Call("add_key", ssh_key.id)>>
       /\ ssh_key.label = KeyLabel /\ ssh_key \in Range(sl_keys)

\* C9: given a key file whose label a key of the account already bears, key
\* resolution raises the duplicate-label exception and the run makes no
\* add_key call.
C9_DuplicateLabelRefused ==
  (args.ssh_pub_key = "path" /\ PreExisting)
    => /\ CallsOf("add_key") = <<>>
       /\ KeyResolved => (key_err = "DuplicateKeyLabel" /\ ssh_key = NoKey)

C9_Witness ==
  /\ args.ssh_pub_key = "path" /\ PreExisting
  /\ key_err = "DuplicateKeyLabel" /\ exited

InstallCommands ==
  {<<"install", "yum install docker">>, <<"install", "docker run saltmaster">>}

\* C10: a run that found no guest at the first lookup, was given a key
\* file and no seed directory, and in which nothing raised inside the try
\* block, exits with status 15 after one createObject call, the install
\* commands over SSH, no cancel call and one report line.
C10_EndToEndCreation ==
  (exited /\ first_matching = <<>> /\ l_err = None
     /\ args.ssh_pub_key = "path" /\ ~args.seed_dir /\ failed_step = None)
    => /\ Len(CallsOf("createObject")) = 1
       /\ InstallCommands \subseteq Range(ssh_log)
       /\ CallsOf("cancel_instance") = <<>>
       /\ Len(stdout) = 1
       /\ status = CreatedExitCode

\* the run created a guest, nothing raised inside the try block, and the
\* report was printed
CreatedAndDone ==
  exited /\ created # 0 /\ failed_step = None /\ Len(stdout) = 1

\* every entry of step a in the SSH log precedes every entry of step b
StepPrecedes(a, b) ==
  \A i, j \in DOMAIN ssh_log :
    (ssh_log[i][1] = a /\ ssh_log[j][1] = b) => i < j

\* C11: in a run that created a guest and ended with the report, the
\* install commands were executed over SSH whatever the flags; the seed
\* upload's operations precede the install's, the CLI install's follow
\* them, and every operation of a step follows a successful connect of
\* that step.
C11_InstallAlwaysRuns ==
  CreatedAndDone
    => /\ InstallCommands \subseteq Range(ssh_log)
       /\ args.seed_dir => <<"seed", "tar xvzf">> \in Range(ssh_log)
       /\ StepPrecedes("seed", "install") /\ StepPrecedes("install", "cli")
       /\ \A i \in DOMAIN ssh_log :
            ssh_log[i][2] # "connect"
              => \E j \in 1..(i - 1) : ssh_log[j] = <<ssh_log[i][1], "connect">>

\* C12: the exit status is 0 exactly in the runs whose first lookup found
\* the guest, CreatedExitCode exactly in the runs that created a guest, 1
\* when key resolution raised, and never 0 when anything else raised.
C12_ExitCodes ==
  exited
    => /\ status = 0 <=> (first_matching # <<>> /\ l_err = None)
       /\ status = CreatedExitCode <=> created # 0
       /\ key_err # None => status = 1
       /\ (l_err # None \/ failed_step # None) => status # 0

\* the first lookup of the run found the guest and _locate_instance
\* returned its descriptor
Found == pc # "locate0" /\ Len(first_matching) = 1 /\ l_err = None

\* C13: a run whose first lookup found the guest resolves no key, makes
\* no provider call, opens no SSH connection, and exits with status 0
\* after printing the one line fqdn, ip, credential, id, the credential
\* replaced by XXXXX unless --show-root-pass was given.
C13_FoundPathHasNoEffects ==
  Found
    => /\ vs # NoInstance /\ pc \in {"report", "exit"}
       /\ key_err = None /\ ssh_key = NoKey
       /\ calls = <<>> /\ ssh_log = <<>> /\ fn # "ssh_connect"
       /\ exited
            => /\ status = 0
               /\ stdout = << <<vs[1], vs[2],
                                IF args.show_root_pass THEN vs[3] ELSE "XXXXX",
                                vs[4]>> >>

C13_Witness ==
  /\ Found /\ exited /\ ~args.show_root_pass /\ status = 0
  /\ Len(stdout) = 1 /\ stdout[1][3] = "XXXXX"

KeyFailures == {"IndexError", "DuplicateKeyLabel", "KeyNotFound"}

\* C14: _locate_or_add_pubkey is called at most once in a run and only
\* after the first lookup found no guest; when it raises, the run exits
\* with status 1 and makes no createObject or cancel call; and every
\* createObject call follows a key resolution that returned a registered
\* key, whose id is the key reference of the submitted order.
C14_KeyResolvedBeforeCreate ==
  /\ key_lookups <= 1
  /\ key_lookups = 1 => (first_matching = <<>> /\ pc # "locate0")
  /\ key_err \in KeyFailures
       => /\ key_lookups = 1 /\ exited /\ status = 1
          /\ CallsOf("createObject") = <<>>
          /\ CallsOf("cancel_instance") = <<>>
  /\ CallsOf("createObject") # <<>>
       => /\ key_lookups = 1 /\ key_err = None
          /\ ssh_key \in Range(sl_keys)
          /\ CallsOf("createObject") = <<Call("createObject", ssh_key.id)>>

C14_Witness ==
  /\ exited /\ key_lookups = 1 /\ ssh_key.label = KeyLabel
  /\ CallsOf("createObject") = <<Call("createObject", ssh_key.id)>>

\* _locate_instance's retry loop has ended
LocatorEnded == pc \in {"locate0", "locate1"} /\ e_pc = "done"

\* C15: when the polled guest's password list is populated, the locator
\* returns no descriptor unless exactly one entry is for root: with no
\* root entry it fails with an error other than the time limit exception,
\* with several it raises out of root_pass.
C15_CredentialFailures ==
  (LocatorEnded /\ res # <<>> /\ res[1].passwords # <<>>)
    => /\ Len(RootEntries(res[1])) = 0
            => outcome \notin {"return", ExceededLimit}
       /\ Len(RootEntries(res[1])) > 1 => outcome = "TestFnException"

\* C16: a run that called cancel_instance exits non-zero without printing
\* the report; the report is printed only by runs in which nothing raised
\* inside the try block.
C16_RollbackEndsFailed ==
  exited
    => /\ CallsOf("cancel_instance") # <<>> => (status # 0 /\ stdout = <<>>)
       /\ stdout # <<>> => failed_step = None

\* C19: the result from which the retry loop of _locate_instance returns,
\* and from whose first element the descriptor is built, never holds more
\* than one guest with the requested hostname and domain.
C19_NoGuessAmongDuplicates ==
  (LocatorEnded /\ outcome = "return") => Len(res) = 1

\* Up to the first step whose effect depends on --debug, a run and the
\* run given the other value of --debug with the same answers from the
\* provider and the SSH endpoint pass through the same states; the two
\* steps below are the ones that read _debug for more than a print.
\* C17: whatever the endpoint answers, a connect attempt leads to the same
\* retry decision with and without --debug, and the install step issues
\* the same commands and raises alike with and without --debug.
C17_DebugNonInterference ==
  /\ (fn = "ssh_connect" /\ e_pc = "loop" /\ ~(test \/ limit_reached))
       => \A connected \in BOOLEAN :
            ssh_connect_raises(TRUE, connected)
              = ssh_connect_raises(FALSE, connected)
  /\ (pc = "install" /\ e_pc = "done" /\ outcome = "return")
       => \A failing \in ExecFailures :
            /\ ssh_log \o Tagged(pc, install_with(TRUE, failing).done)
                 = ssh_log \o Tagged(pc, install_with(FALSE, failing).done)
            /\ install_with(TRUE, failing).raised
                 = install_with(FALSE, failing).raised

\* what the next call of fn can return
NextResults ==
  IF fn = "ssh_connect"
    THEN {SshFalse} \cup (IF vs # NoInstance THEN {SshTrue} ELSE {})
  ELSE {vs_lookup}

\* Up to the attempt that ends the retrying, the loop without a test and
\* the loop with the test bool(res), given the same results, pass through
\* the same states.
\* C18: for every result the next call of fn can return, the loop without
\* a test and the loop with the test bool(res) agree on whether the
\* retrying ends with this attempt and on whether the attempt is followed
\* by a sleep.
C18_NoTestIsTruthyTest ==
  (e_pc = "loop" /\ ~(test \/ limit_reached) /\ test_fn \in {None, "truthy"})
    => \A r \in NextResults :
         /\ Satisfying(None, fn, r) = Satisfying("truthy", fn, r)
         /\ SleepsAfter(None, fn, r, retries + 1)
              = SleepsAfter("truthy", fn, r, retries + 1)

\* C20: every call of until_with_lim_test ends; it ends only after at
\* least one call of fn; no call of fn follows an iteration that found the
\* elapsed time over the limit; and every run of main exits.
C20_Termination ==
  /\ [](e_pc = "done" => (retries >= 1 \/ outcome = "FnException"))
  /\ [][limit_reached => retries' # retries + 1]_vars
  /\ (e_pc = "loop") ~> (e_pc = "done")
  /\ <>(exited \/ (pc = "retry" /\ e_pc = "done"))

C20_Witness ==
  /\ pc = "retry" /\ e_pc = "done" /\ outcome = ExceededLimit
  /\ retries > 3 /\ sleeps >= 1

====
